---- MODULE Spec2Model ----
(***************************************************************************)
(* Wallet ledger orchestration core: TopupService, WithdrawService and     *)
(* TransferService composed over the saldo (balance), topup, withdraw and  *)
(* transfer repositories and the user repository.  Every repository call   *)
(* is one atomic step that either succeeds or fails with a store error;    *)
(* a service method is the sequence of its calls, one action per call.     *)
(***************************************************************************)
EXTENDS Integers, Sequences, FiniteSets, TLC

\* ---------------------------------------------------------------- bounds
MaxOps == 1        \* service calls started in one behaviour
MaxAmount == 2     \* request amounts are 1..MaxAmount

\* ------------------------------------------------------ program constants
I32Max == 2147483647
I32Min == -I32Max - 1

Users == {1, 2}          \* rows of the user table
UserIds == {1, 2, 3}     \* ids a request may name (3 is no user)
Procs == {1, 2}          \* request tasks
Amounts == 1..MaxAmount
RecordIds == 1..(MaxOps + 1)   \* journal ids a request may name
InitTotals == {0, 1, I32Max}

None == <<>>
Some(x) == <<x>>

VARIABLES
  saldo,        \* saldo[u]: None or Some(row) of the saldo table
  topups,       \* rows of the topup table
  withdraws,    \* rows of the withdraw table
  transfers,    \* rows of the transfer table
  nextId,       \* next serial id of each journal table
  ops,          \* ops[p]: the service call task p is running
  pre,          \* pre[p]: the tables as they were when ops[p] started
  opCount       \* service calls started so far (also the clock)

vars == <<saldo, topups, withdraws, transfers, nextId, ops, pre, opCount>>

\* ------------------------------------------------------------- arithmetic
\* whether a + b, a - b leave the range of i32
AddOverflows(a, b) == (b > 0 /\ a > I32Max - b) \/ (b < 0 /\ a < I32Min - b)
SubOverflows(a, b) == (b > 0 /\ a < I32Min + b) \/ (b < 0 /\ a > I32Max + b)

\* i32::checked_sub, i32::checked_add: None on overflow, and only then
checked_sub(a, b) == IF SubOverflows(a, b) THEN None ELSE Some(a - b)
checked_add(a, b) == IF AddOverflows(a, b) THEN None ELSE Some(a + b)

\* two's complement result of a + b when it overflows
WrapAdd(a, b) ==
  IF b > 0 THEN ((a - I32Max) + (b - 1)) + I32Min
           ELSE ((a - I32Min) + (b + 1)) + I32Max
WrapSub(a, b) ==
  IF b > 0 THEN ((a - I32Min) - (b - 1)) + I32Max
           ELSE ((a - I32Max) - (b + 1)) + I32Min

\* `a + b` and `a - b` on i32: the build either traps the overflow (panic)
\* or wraps it; both outcomes are kept.
PlainAdd(a, b) ==
  IF AddOverflows(a, b) THEN {None, Some(WrapAdd(a, b))} ELSE {Some(a + b)}
PlainSub(a, b) ==
  IF SubOverflows(a, b) THEN {None, Some(WrapSub(a, b))} ELSE {Some(a - b)}

\* ------------------------------------------------------------ the tables
SaldoRow(t, wa, wt) == [total |-> t, wamount |-> wa, wtime |-> wt]

HasSaldo(u) == saldo[u] # None
Total(u) == saldo[u][1].total

\* SaldoRepository::update_balance: sets total_balance of the user's row
SetBalance(s, u, t) == [s EXCEPT ![u] = Some([s[u][1] EXCEPT !.total = t])]
\* SaldoRepository::update_saldo_withdraw
SetWithdraw(s, u, t, wa, wt) == [s EXCEPT ![u] = Some(SaldoRow(t, wa, wt))]
\* SaldoRepository::create
CreateSaldo(s, u, t) == [s EXCEPT ![u] = Some(SaldoRow(t, None, None))]

\* ------------------------------------------------------ journal helpers
TransferRow(id, from, to, amt) == [id |-> id, from |-> from, to |-> to, amount |-> amt]
TopupRow(id, u, amt) == [id |-> id, user |-> u, amount |-> amt]
WithdrawRow(id, u, amt, t) == [id |-> id, user |-> u, amount |-> amt, time |-> t]

ById(rows, id) == {r \in rows : r.id = id}
DeleteById(rows, id) == {r \in rows : r.id # id}
\* find_by_user of a journal: the rows the user owns (a transfer is its
\* sender's)
OwnedBy(rows, u) == {r \in rows : r.user = u}
TransfersOf(rows, u) == {r \in rows : r.from = u}
\* SaldoRepository::delete of the user's row
DeleteSaldoRow(s, u) == [s EXCEPT ![u] = None]
SetAmount(rows, id, amt) ==
  {IF r.id = id THEN [r EXCEPT !.amount = amt] ELSE r : r \in rows}
BumpId(t) == [nextId EXCEPT ![t] = @ + 1]

Tables == [saldo |-> saldo, topups |-> topups, withdraws |-> withdraws,
           transfers |-> transfers]

\* ------------------------------------------------------------- the tasks
NoErr == [kind |-> "", at |-> ""]
Err(k, at) == [kind |-> k, at |-> at]

IdleOp ==
  [kind |-> "none", pc |-> "idle",
   user |-> 0, to |-> 0, amount |-> 0, id |-> 0,
   rec |-> 0, old |-> 0, rd |-> 0, nw |-> 0, diff |-> 0,
   err |-> NoErr, status |-> "none", log |-> <<>>]

Resting(p) == ops[p].pc \in {"idle", "done"}

\* the record of one repository call in the task's log: the call, whether it
\* returned Ok, and the step of the method that made it
Call(name, ok, at) == [call |-> name, ok |-> ok, at |-> at]

Logged(o, name, ok) == [o EXCEPT !.log = Append(@, Call(name, ok, o.pc))]

\* the task returns Err(e) / Ok / unwinds with a panic
Fail(o, e) == [o EXCEPT !.pc = "done", !.status = "err", !.err = e]
Succeed(o) == [o EXCEPT !.pc = "done", !.status = "ok"]
Panic(o) == [o EXCEPT !.pc = "done", !.status = "panic"]
Goto(o, l) == [o EXCEPT !.pc = l]

DbUnchanged == UNCHANGED <<saldo, topups, withdraws, transfers, nextId>>

\* The tables when the server starts serving: users 1 and 2 may hold a saldo
\* row, and each journal is empty or holds the one row an earlier, completed
\* create left there (id 1, so the next serial id is 2).
InitTables(tp, wd, tr) ==
  /\ saldo \in [UserIds -> {None} \cup {Some(SaldoRow(t, None, None)) : t \in InitTotals}]
  /\ \A u \in UserIds \ Users : saldo[u] = None
  /\ topups \in {{}} \cup (IF tp THEN {{TopupRow(1, 1, a)} : a \in Amounts} ELSE {})
  /\ withdraws \in {{}} \cup (IF wd THEN {{WithdrawRow(1, 1, a, 0)} : a \in Amounts} ELSE {})
  /\ transfers \in {{}} \cup (IF tr THEN {{TransferRow(1, 1, 2, a)} : a \in Amounts} ELSE {})
  /\ nextId = [topup |-> Cardinality(topups) + 1,
               withdraw |-> Cardinality(withdraws) + 1,
               transfer |-> Cardinality(transfers) + 1]

InitTasks ==
  /\ ops = [p \in Procs |-> IdleOp]
  /\ pre = [p \in Procs |-> Tables]
  /\ opCount = 0

\* A request arrives: task p starts the service method `kind`.
Begin(p, kind, first, u, to, amt, id) ==
  /\ Resting(p)
  /\ opCount < MaxOps
  /\ opCount' = opCount + 1
  /\ ops' = [ops EXCEPT ![p] = [IdleOp EXCEPT !.kind = kind, !.pc = first,
                                   !.user = u, !.to = to, !.amount = amt, !.id = id]]
  /\ pre' = [pre EXCEPT ![p] = Tables]
  /\ DbUnchanged

\* A request arrives while others may be in flight: the server runs each
\* request on a task of its own, and task p serves one request.
Arrive(p, kind, first, u, to, amt, id) ==
  /\ ops[p].pc = "idle"
  /\ opCount' = opCount + 1
  /\ ops' = [ops EXCEPT ![p] = [IdleOp EXCEPT !.kind = kind, !.pc = first,
                                   !.user = u, !.to = to, !.amount = amt, !.id = id]]
  /\ pre' = [pre EXCEPT ![p] = Tables]
  /\ DbUnchanged

Step(p, o) ==
  /\ ops' = [ops EXCEPT ![p] = o]
  /\ UNCHANGED <<pre, opCount>>

\* UserRepository::find_by_id as the services use it: only Err is looked at
\* (map_err ... ?), the Option inside Ok is dropped.
FindUser(p, at, uid, next) ==
  /\ ops[p].pc = at
  /\ \E ok \in BOOLEAN :
       Step(p, IF ok THEN Goto(Logged(ops[p], "user.find_by_id", TRUE), next)
                     ELSE Fail(Logged(ops[p], "user.find_by_id", FALSE),
                               Err("NotFound", at)))
  /\ DbUnchanged


\* ============================================ TransferService::create_transfer
CT_Start(p) ==
  \E from \in UserIds, to \in UserIds, amt \in Amounts :
    Begin(p, "create_transfer", "ct_sender_user", from, to, amt, 0)

CT_SenderUser(p) == FindUser(p, "ct_sender_user", ops[p].user, "ct_receiver_user")

CT_ReceiverUser(p) == FindUser(p, "ct_receiver_user", ops[p].to, "ct_create")

\* transfer_repository.create(input) ... ?
CT_Create(p) ==
  LET o == ops[p] IN
  /\ o.pc = "ct_create"
  /\ \/ /\ transfers' = transfers \cup
                          {TransferRow(nextId.transfer, o.user, o.to, o.amount)}
        /\ nextId' = BumpId("transfer")
        /\ Step(p, Goto([Logged(o, "transfer.create", TRUE)
                           EXCEPT !.rec = nextId.transfer], "ct_find_sender"))
        /\ UNCHANGED <<saldo, topups, withdraws>>
     \/ /\ Step(p, Fail(Logged(o, "transfer.create", FALSE),
                        Err("StoreError", "ct_create")))
        /\ DbUnchanged

\* sender_saldo.total_balance.checked_sub(input.transfer_amount)
CT_NewSenderBalance(total, amount) == checked_sub(total, amount)

\* saldo_repository.find_by_user_id(transfer_from), then the checked_sub
CT_FindSender(p) ==
  LET o == ops[p] IN
  /\ o.pc = "ct_find_sender"
  /\ DbUnchanged
  /\ \/ Step(p, Fail(Logged(o, "saldo.find_by_user_id", FALSE),
                     Err("NotFound", "ct_find_sender")))
     \/ /\ ~HasSaldo(o.user)
        /\ Step(p, Fail(Logged(o, "saldo.find_by_user_id", TRUE),
                        Err("NotFound", "ct_find_sender")))
     \/ /\ HasSaldo(o.user)
        /\ LET nb == CT_NewSenderBalance(Total(o.user), o.amount)
               o1 == Logged(o, "saldo.find_by_user_id", TRUE) IN
           IF nb = None
             THEN Step(p, Fail(o1, Err("Custom", "ct_new_sender_balance")))
             ELSE Step(p, Goto([o1 EXCEPT !.rd = Total(o.user), !.nw = nb[1]],
                               "ct_update_sender"))

\* saldo_repository.update_balance(&request_sender_balance)
CT_UpdateSender(p) ==
  LET o == ops[p] IN
  /\ o.pc = "ct_update_sender"
  /\ \/ /\ HasSaldo(o.user)
        /\ saldo' = SetBalance(saldo, o.user, o.nw)
        /\ Step(p, Goto(Logged(o, "saldo.update_balance", TRUE), "ct_find_receiver"))
        /\ UNCHANGED <<topups, withdraws, transfers, nextId>>
     \/ /\ Step(p, Goto([Logged(o, "saldo.update_balance", FALSE)
                           EXCEPT !.err = Err("StoreError", "ct_update_sender")],
                        "ct_rollback_delete"))
        /\ DbUnchanged

\* faulty variant of CT_SenderFailResult (C14): a failed compensating delete
\* replaces the error of the sender write
CT_SenderFailResult_Rollback(o, rollbackOk) ==
  IF rollbackOk THEN o.err ELSE Err("StoreError", "ct_rollback_delete")

\* the error create_transfer returns once the sender write has failed
CT_SenderFailResult(o, rollbackOk) == o.err

\* transfer_repository.delete(transfer.transfer_id) after the sender write failed
CT_RollbackDelete(p) ==
  LET o == ops[p] IN
  /\ o.pc = "ct_rollback_delete"
  /\ \/ /\ transfers' = DeleteById(transfers, o.rec)
        /\ Step(p, Fail(Logged(o, "transfer.delete", TRUE), CT_SenderFailResult(o, TRUE)))
        /\ UNCHANGED <<saldo, topups, withdraws, nextId>>
     \/ /\ Step(p, Fail(Logged(o, "transfer.delete", FALSE), CT_SenderFailResult(o, FALSE)))
        /\ DbUnchanged

\* faulty variant of CT_NewReceiverBalance (C24): a wrapping addition
CT_NewReceiverBalance_Wrap(total, amount) ==
  Some(IF AddOverflows(total, amount) THEN WrapAdd(total, amount) ELSE total + amount)

\* faulty variant of CT_NewReceiverBalance (C1): the receiver is debited like the sender
CT_NewReceiverBalance_Sub(total, amount) == checked_sub(total, amount)

\* receiver_saldo.total_balance.checked_add(amount).expect(..)
CT_NewReceiverBalance(total, amount) == checked_add(total, amount)

\* faulty variant of CT_FindReceiver (C35): when the receiver is the sender the
\* balance read for the sender is used again, not the row as it is now
CT_FindReceiver_Cached(p) ==
  LET o == ops[p] IN
  /\ o.pc = "ct_find_receiver"
  /\ DbUnchanged
  /\ \/ Step(p, Fail(Logged(o, "saldo.find_by_user_id", FALSE),
                     Err("NotFound", "ct_find_receiver")))
     \/ /\ ~HasSaldo(o.to)
        /\ Step(p, Fail(Logged(o, "saldo.find_by_user_id", TRUE),
                        Err("NotFound", "ct_find_receiver")))
     \/ /\ HasSaldo(o.to)
        /\ LET nb == CT_NewReceiverBalance(IF o.to = o.user THEN o.rd ELSE Total(o.to),
                                           o.amount)
               o1 == Logged(o, "saldo.find_by_user_id", TRUE) IN
           IF nb = None
             THEN Step(p, Panic(o1))
             ELSE Step(p, Goto([o1 EXCEPT !.nw = nb[1]], "ct_update_receiver"))

\* saldo_repository.find_by_user_id(transfer_to), then the checked_add
CT_FindReceiver(p) ==
  LET o == ops[p] IN
  /\ o.pc = "ct_find_receiver"
  /\ DbUnchanged
  /\ \/ Step(p, Fail(Logged(o, "saldo.find_by_user_id", FALSE),
                     Err("NotFound", "ct_find_receiver")))
     \/ /\ ~HasSaldo(o.to)
        /\ Step(p, Fail(Logged(o, "saldo.find_by_user_id", TRUE),
                        Err("NotFound", "ct_find_receiver")))
     \/ /\ HasSaldo(o.to)
        /\ LET nb == CT_NewReceiverBalance(Total(o.to), o.amount)
               o1 == Logged(o, "saldo.find_by_user_id", TRUE) IN
           IF nb = None
             THEN Step(p, Panic(o1))
             ELSE Step(p, Goto([o1 EXCEPT !.nw = nb[1]], "ct_update_receiver"))

\* saldo_repository.update_balance(&request_receiver_balance)
CT_UpdateReceiver(p) ==
  LET o == ops[p] IN
  /\ o.pc = "ct_update_receiver"
  /\ \/ /\ HasSaldo(o.to)
        /\ saldo' = SetBalance(saldo, o.to, o.nw)
        /\ Step(p, Succeed(Logged(o, "saldo.update_balance", TRUE)))
        /\ UNCHANGED <<topups, withdraws, transfers, nextId>>
     \/ /\ Step(p, Goto([Logged(o, "saldo.update_balance", FALSE)
                           EXCEPT !.err = Err("StoreError", "ct_update_receiver")],
                        "ct_undo_delete"))
        /\ DbUnchanged

\* let _ = transfer_repository.delete(transfer.transfer_id)
CT_UndoDelete(p) ==
  LET o == ops[p] IN
  /\ o.pc = "ct_undo_delete"
  /\ \/ /\ transfers' = DeleteById(transfers, o.rec)
        /\ Step(p, Goto(Logged(o, "transfer.delete", TRUE), "ct_undo_sender"))
        /\ UNCHANGED <<saldo, topups, withdraws, nextId>>
     \/ /\ Step(p, Goto(Logged(o, "transfer.delete", FALSE), "ct_undo_sender"))
        /\ DbUnchanged

\* faulty variant of CT_UndoSenderTotal (C29): the amount is added back to the
\* total the row holds at the time of the compensation
CT_UndoSenderTotal_Relative(o) ==
  IF AddOverflows(Total(o.user), o.amount) THEN o.rd ELSE Total(o.user) + o.amount

\* faulty variant of CT_UndoSenderTotal (C5): the compensating write repeats the debited total
CT_UndoSenderTotal_Debited(o) == o.rd - o.amount

\* total_balance: sender_saldo.total_balance in the compensating write
CT_UndoSenderTotal(o) == o.rd

\* the error create_transfer returns once the receiver write has failed
CT_ReceiverFailResult(o, undoOk) == o.err

\* let _ = saldo_repository.update_balance(sender, sender_saldo.total_balance)
CT_UndoSender(p) ==
  LET o == ops[p] IN
  /\ o.pc = "ct_undo_sender"
  /\ \/ /\ HasSaldo(o.user)
        /\ saldo' = SetBalance(saldo, o.user, CT_UndoSenderTotal(o))
        /\ Step(p, Fail(Logged(o, "saldo.update_balance", TRUE),
                        CT_ReceiverFailResult(o, TRUE)))
        /\ UNCHANGED <<topups, withdraws, transfers, nextId>>
     \/ /\ Step(p, Fail(Logged(o, "saldo.update_balance", FALSE),
                        CT_ReceiverFailResult(o, FALSE)))
        /\ DbUnchanged

CreateTransfer(p) ==
  \/ CT_SenderUser(p) \/ CT_ReceiverUser(p) \/ CT_Create(p)
  \/ CT_FindSender(p) \/ CT_UpdateSender(p) \/ CT_RollbackDelete(p)
  \/ CT_FindReceiver(p) \/ CT_UpdateReceiver(p)
  \/ CT_UndoDelete(p) \/ CT_UndoSender(p)

\* ============================================ TransferService::update_transfer
UT_Start(p) ==
  \E id \in RecordIds, amt \in Amounts :
    Begin(p, "update_transfer", "ut_find", 0, 0, amt, id)

\* amount_difference = input.transfer_amount as i64 - transfer.transfer_amount as i64
UT_Difference(newAmount, oldAmount) == newAmount - oldAmount

\* transfer_repository.find_by_id(input.transfer_id)
UT_Find(p) ==
  LET o == ops[p] IN
  /\ o.pc = "ut_find"
  /\ DbUnchanged
  /\ \/ Step(p, Fail(Logged(o, "transfer.find_by_id", FALSE), Err("NotFound", "ut_find")))
     \/ /\ ById(transfers, o.id) = {}
        /\ Step(p, Fail(Logged(o, "transfer.find_by_id", TRUE), Err("NotFound", "ut_find")))
     \/ \E t \in ById(transfers, o.id) :
          Step(p, Goto([Logged(o, "transfer.find_by_id", TRUE)
                          EXCEPT !.rec = t.id, !.user = t.from, !.to = t.to,
                                 !.old = t.amount,
                                 !.diff = UT_Difference(o.amount, t.amount)],
                       "ut_find_sender"))

\* new_sender_balance = sender_saldo.total_balance - amount_difference as i32
UT_NewSenderBalance(total, diff) == PlainSub(total, diff)

\* faulty variant of UT_Insufficient (C16): the comparison the wrong way round
UT_Insufficient_Reversed(newSender) == newSender > 0

\* if new_sender_balance < 0 { return Err(.."Insufficient balance for sender") }
UT_Insufficient(newSender) == newSender < 0

\* saldo_repository.find_by_user_id(transfer.transfer_from), the subtraction
\* and the sufficiency check
UT_FindSender(p) ==
  LET o == ops[p] IN
  /\ o.pc = "ut_find_sender"
  /\ DbUnchanged
  /\ \/ Step(p, Fail(Logged(o, "saldo.find_by_user_id", FALSE),
                     Err("NotFound", "ut_find_sender")))
     \/ /\ ~HasSaldo(o.user)
        /\ Step(p, Fail(Logged(o, "saldo.find_by_user_id", TRUE),
                        Err("NotFound", "ut_find_sender")))
     \/ /\ HasSaldo(o.user)
        /\ \E nb \in UT_NewSenderBalance(Total(o.user), o.diff) :
             LET o1 == Logged(o, "saldo.find_by_user_id", TRUE) IN
             IF nb = None THEN Step(p, Panic(o1))
             ELSE IF UT_Insufficient(nb[1])
               THEN Step(p, Fail(o1, Err("Custom", "ut_new_sender_balance")))
               ELSE Step(p, Goto([o1 EXCEPT !.rd = Total(o.user), !.nw = nb[1]],
                                 "ut_update_sender"))

\* saldo_repository.update_balance(&update_sender_balance)
UT_UpdateSender(p) ==
  LET o == ops[p] IN
  /\ o.pc = "ut_update_sender"
  /\ \/ /\ HasSaldo(o.user)
        /\ saldo' = SetBalance(saldo, o.user, o.nw)
        /\ Step(p, Goto(Logged(o, "saldo.update_balance", TRUE), "ut_find_receiver"))
        /\ UNCHANGED <<topups, withdraws, transfers, nextId>>
     \/ /\ Step(p, Fail(Logged(o, "saldo.update_balance", FALSE),
                        Err("StoreError", "ut_update_sender")))
        /\ DbUnchanged

\* new_receiver_balance = receiver_saldo.total_balance + amount_difference as i32
UT_NewReceiverBalance(total, diff) == PlainAdd(total, diff)

\* saldo_repository.find_by_user_id(transfer.transfer_to) and the addition
UT_FindReceiver(p) ==
  LET o == ops[p] IN
  /\ o.pc = "ut_find_receiver"
  /\ DbUnchanged
  /\ \/ Step(p, Fail(Logged(o, "saldo.find_by_user_id", FALSE),
                     Err("NotFound", "ut_find_receiver")))
     \/ /\ ~HasSaldo(o.to)
        /\ Step(p, Fail(Logged(o, "saldo.find_by_user_id", TRUE),
                        Err("NotFound", "ut_find_receiver")))
     \/ /\ HasSaldo(o.to)
        /\ \E nb \in UT_NewReceiverBalance(Total(o.to), o.diff) :
             LET o1 == Logged(o, "saldo.find_by_user_id", TRUE) IN
             IF nb = None THEN Step(p, Panic(o1))
             ELSE Step(p, Goto([o1 EXCEPT !.nw = nb[1]], "ut_update_receiver"))

\* saldo_repository.update_balance(&update_receiver_balance)
UT_UpdateReceiver(p) ==
  LET o == ops[p] IN
  /\ o.pc = "ut_update_receiver"
  /\ \/ /\ HasSaldo(o.to)
        /\ saldo' = SetBalance(saldo, o.to, o.nw)
        /\ Step(p, Goto(Logged(o, "saldo.update_balance", TRUE), "ut_update_record"))
        /\ UNCHANGED <<topups, withdraws, transfers, nextId>>
     \/ /\ Step(p, Goto([Logged(o, "saldo.update_balance", FALSE)
                           EXCEPT !.err = Err("StoreError", "ut_update_receiver")],
                        "ut_undo_sender"))
        /\ DbUnchanged

\* the error update_transfer returns once the receiver write has failed
UT_ReceiverFailResult(o, undoOk) == o.err

\* faulty variant of UT_UndoSenderTotal (C17): the last computed balance is
\* written back, not the balance that was read
UT_UndoSenderTotal_New(o) == o.nw

\* rollback_sender_balance.total_balance = sender_saldo.total_balance
UT_UndoSenderTotal(o) == o.rd

\* saldo_repository.update_balance(&rollback_sender_balance) .map_err(log) .ok()
UT_UndoSender(p) ==
  LET o == ops[p] IN
  /\ o.pc = "ut_undo_sender"
  /\ \/ /\ HasSaldo(o.user)
        /\ saldo' = SetBalance(saldo, o.user, UT_UndoSenderTotal(o))
        /\ Step(p, Fail(Logged(o, "saldo.update_balance", TRUE),
                        UT_ReceiverFailResult(o, TRUE)))
        /\ UNCHANGED <<topups, withdraws, transfers, nextId>>
     \/ /\ Step(p, Fail(Logged(o, "saldo.update_balance", FALSE),
                        UT_ReceiverFailResult(o, FALSE)))
        /\ DbUnchanged

\* transfer_repository.update(input) ... ?
UT_UpdateRecord(p) ==
  LET o == ops[p] IN
  /\ o.pc = "ut_update_record"
  /\ \/ /\ ById(transfers, o.id) # {}
        /\ transfers' = SetAmount(transfers, o.id, o.amount)
        /\ Step(p, Succeed(Logged(o, "transfer.update", TRUE)))
        /\ UNCHANGED <<saldo, topups, withdraws, nextId>>
     \/ /\ Step(p, Fail(Logged(o, "transfer.update", FALSE),
                        Err("StoreError", "ut_update_record")))
        /\ DbUnchanged

UpdateTransfer(p) ==
  \/ UT_Find(p) \/ UT_FindSender(p) \/ UT_UpdateSender(p) \/ UT_FindReceiver(p)
  \/ UT_UpdateReceiver(p) \/ UT_UndoSender(p) \/ UT_UpdateRecord(p)

\* ================================================= TopupService::create_topup
TP_Start(p) ==
  \E u \in UserIds, amt \in Amounts :
    Begin(p, "create_topup", "tp_user", u, 0, amt, 0)

TP_User(p) == FindUser(p, "tp_user", ops[p].user, "tp_create")

\* faulty variant of TP_Create (C37): a failed create is passed over and the
\* call goes on to the balance
TP_Create_Continue(p) ==
  LET o == ops[p] IN
  /\ o.pc = "tp_create"
  /\ \/ /\ topups' = topups \cup {TopupRow(nextId.topup, o.user, o.amount)}
        /\ nextId' = BumpId("topup")
        /\ Step(p, Goto([Logged(o, "topup.create", TRUE) EXCEPT !.rec = nextId.topup],
                        "tp_find_saldo"))
        /\ UNCHANGED <<saldo, withdraws, transfers>>
     \/ /\ Step(p, Goto(Logged(o, "topup.create", FALSE), "tp_find_saldo"))
        /\ DbUnchanged

\* topup_repository.create(input) ... ?
TP_Create(p) ==
  LET o == ops[p] IN
  /\ o.pc = "tp_create"
  /\ \/ /\ topups' = topups \cup {TopupRow(nextId.topup, o.user, o.amount)}
        /\ nextId' = BumpId("topup")
        /\ Step(p, Goto([Logged(o, "topup.create", TRUE) EXCEPT !.rec = nextId.topup],
                        "tp_find_saldo"))
        /\ UNCHANGED <<saldo, withdraws, transfers>>
     \/ /\ Step(p, Fail(Logged(o, "topup.create", FALSE), Err("StoreError", "tp_create")))
        /\ DbUnchanged

\* new_balance = current_saldo.total_balance + topup.topup_amount
TP_NewBalance(total, amount) == PlainAdd(total, amount)

\* the Err(_) arm of the match: the error create_topup returns when reading
\* the saldo failed
TP_FindSaldoError == Err("NotFound", "tp_find_saldo")

\* match saldo_repository.find_by_user_id(input.user_id)
TP_FindSaldo(p) ==
  LET o == ops[p] IN
  /\ o.pc = "tp_find_saldo"
  /\ DbUnchanged
  /\ \/ Step(p, Goto([Logged(o, "saldo.find_by_user_id", FALSE)
                        EXCEPT !.err = TP_FindSaldoError], "tp_rollback"))
     \/ /\ ~HasSaldo(o.user)
        /\ Step(p, Goto(Logged(o, "saldo.find_by_user_id", TRUE), "tp_create_saldo"))
     \/ /\ HasSaldo(o.user)
        /\ \E nb \in TP_NewBalance(Total(o.user), o.amount) :
             LET o1 == Logged(o, "saldo.find_by_user_id", TRUE) IN
             IF nb = None THEN Step(p, Panic(o1))
             ELSE Step(p, Goto([o1 EXCEPT !.rd = Total(o.user), !.nw = nb[1]],
                               "tp_update_saldo"))

\* faulty variant of TP_UpdateSaldo (C13): the store adds the amount to the
\* total it holds at the time of the write, not the total computed from the
\* earlier read
TP_UpdateSaldo_Increment(p) ==
  LET o == ops[p] IN
  /\ o.pc = "tp_update_saldo"
  /\ \/ /\ HasSaldo(o.user)
        /\ saldo' = SetBalance(saldo, o.user,
                               IF AddOverflows(Total(o.user), o.amount)
                                 THEN o.nw ELSE Total(o.user) + o.amount)
        /\ Step(p, Succeed(Logged(o, "saldo.update_balance", TRUE)))
        /\ UNCHANGED <<topups, withdraws, transfers, nextId>>
     \/ /\ Step(p, Goto([Logged(o, "saldo.update_balance", FALSE)
                           EXCEPT !.err = Err("StoreError", "tp_update_saldo")],
                        "tp_rollback"))
        /\ DbUnchanged

\* saldo_repository.update_balance(&request)
TP_UpdateSaldo(p) ==
  LET o == ops[p] IN
  /\ o.pc = "tp_update_saldo"
  /\ \/ /\ HasSaldo(o.user)
        /\ saldo' = SetBalance(saldo, o.user, o.nw)
        /\ Step(p, Succeed(Logged(o, "saldo.update_balance", TRUE)))
        /\ UNCHANGED <<topups, withdraws, transfers, nextId>>
     \/ /\ Step(p, Goto([Logged(o, "saldo.update_balance", FALSE)
                           EXCEPT !.err = Err("StoreError", "tp_update_saldo")],
                        "tp_rollback"))
        /\ DbUnchanged

\* CreateSaldoRequest { total_balance: topup.topup_amount }
TP_InitialBalance(amount) == amount

\* saldo_repository.create(&create_saldo_request)
TP_CreateSaldo(p) ==
  LET o == ops[p] IN
  /\ o.pc = "tp_create_saldo"
  /\ \/ /\ ~HasSaldo(o.user)
        /\ saldo' = CreateSaldo(saldo, o.user, TP_InitialBalance(o.amount))
        /\ Step(p, Succeed(Logged(o, "saldo.create", TRUE)))
        /\ UNCHANGED <<topups, withdraws, transfers, nextId>>
     \/ /\ Step(p, Goto([Logged(o, "saldo.create", FALSE)
                           EXCEPT !.err = Err("StoreError", "tp_create_saldo")],
                        "tp_rollback"))
        /\ DbUnchanged

\* the error create_topup returns once the balance step has failed
TP_FailResult(o, rollbackOk) == o.err

\* faulty variant of TP_RollbackId (C9): the rollback deletes by the user's id
TP_RollbackId_User(o) == o.user

\* the id handed to topup_repository.delete in the rollback
TP_RollbackId(o) == o.rec

\* topup_repository.delete(topup.topup_id) in each failing arm
TP_Rollback(p) ==
  LET o == ops[p] IN
  /\ o.pc = "tp_rollback"
  /\ \/ /\ topups' = DeleteById(topups, TP_RollbackId(o))
        /\ Step(p, Fail(Logged(o, "topup.delete", TRUE), TP_FailResult(o, TRUE)))
        /\ UNCHANGED <<saldo, withdraws, transfers, nextId>>
     \/ /\ Step(p, Fail(Logged(o, "topup.delete", FALSE), TP_FailResult(o, FALSE)))
        /\ DbUnchanged

CreateTopup(p) ==
  \/ TP_User(p) \/ TP_Create(p) \/ TP_FindSaldo(p) \/ TP_UpdateSaldo(p)
  \/ TP_CreateSaldo(p) \/ TP_Rollback(p)

\* ================================================= TopupService::update_topup
UTP_Start(p) ==
  \E id \in RecordIds, u \in UserIds, amt \in Amounts :
    Begin(p, "update_topup", "utp_user", u, 0, amt, id)

UTP_User(p) == FindUser(p, "utp_user", ops[p].user, "utp_find")

\* topup_difference = input.topup_amount - existing_topup.topup_amount
UTP_Difference(newAmount, oldAmount) == newAmount - oldAmount

\* topup_repository.find_by_id(input.topup_id) ... ? and ok_or_else
UTP_Find(p) ==
  LET o == ops[p] IN
  /\ o.pc = "utp_find"
  /\ DbUnchanged
  /\ \/ Step(p, Fail(Logged(o, "topup.find_by_id", FALSE), Err("StoreError", "utp_find")))
     \/ /\ ById(topups, o.id) = {}
        /\ Step(p, Fail(Logged(o, "topup.find_by_id", TRUE), Err("NotFound", "utp_find")))
     \/ \E t \in ById(topups, o.id) :
          Step(p, Goto([Logged(o, "topup.find_by_id", TRUE)
                          EXCEPT !.rec = t.id, !.old = t.amount,
                                 !.diff = UTP_Difference(o.amount, t.amount)],
                       "utp_update_amount"))

\* topup_repository.update_amount(&update_topup) ... ?
UTP_UpdateAmount(p) ==
  LET o == ops[p] IN
  /\ o.pc = "utp_update_amount"
  /\ \/ /\ ById(topups, o.id) # {}
        /\ topups' = SetAmount(topups, o.id, o.amount)
        /\ Step(p, Goto(Logged(o, "topup.update_amount", TRUE), "utp_find_saldo"))
        /\ UNCHANGED <<saldo, withdraws, transfers, nextId>>
     \/ /\ Step(p, Fail(Logged(o, "topup.update_amount", FALSE),
                        Err("StoreError", "utp_update_amount")))
        /\ DbUnchanged

\* new_balance = current_saldo.total_balance + topup_difference
UTP_NewBalance(total, diff) == PlainAdd(total, diff)

\* match saldo_repository.find_by_user_id(input.user_id)
UTP_FindSaldo(p) ==
  LET o == ops[p] IN
  /\ o.pc = "utp_find_saldo"
  /\ DbUnchanged
  /\ \/ Step(p, Fail(Logged(o, "saldo.find_by_user_id", FALSE),
                     Err("StoreError", "utp_find_saldo")))
     \/ /\ ~HasSaldo(o.user)
        /\ Step(p, Fail(Logged(o, "saldo.find_by_user_id", TRUE),
                        Err("NotFound", "utp_find_saldo")))
     \/ /\ HasSaldo(o.user)
        /\ \E nb \in UTP_NewBalance(Total(o.user), o.diff) :
             LET o1 == Logged(o, "saldo.find_by_user_id", TRUE) IN
             IF nb = None THEN Step(p, Panic(o1))
             ELSE Step(p, Goto([o1 EXCEPT !.rd = Total(o.user), !.nw = nb[1]],
                               "utp_update_saldo"))

\* saldo_repository.update_balance(&request)
UTP_UpdateSaldo(p) ==
  LET o == ops[p] IN
  /\ o.pc = "utp_update_saldo"
  /\ \/ /\ HasSaldo(o.user)
        /\ saldo' = SetBalance(saldo, o.user, o.nw)
        /\ Step(p, Goto(Logged(o, "saldo.update_balance", TRUE), "utp_refetch"))
        /\ UNCHANGED <<topups, withdraws, transfers, nextId>>
     \/ /\ Step(p, Goto([Logged(o, "saldo.update_balance", FALSE)
                           EXCEPT !.err = Err("StoreError", "utp_update_saldo")],
                        "utp_rollback_amount"))
        /\ DbUnchanged

\* the error update_topup returns once the balance write has failed
UTP_FailResult(o, rollbackOk) == o.err

\* topup_repository.update_amount(&rollback) with the existing amount
UTP_RollbackAmount(p) ==
  LET o == ops[p] IN
  /\ o.pc = "utp_rollback_amount"
  /\ \/ /\ ById(topups, o.rec) # {}
        /\ topups' = SetAmount(topups, o.rec, o.old)
        /\ Step(p, Fail(Logged(o, "topup.update_amount", TRUE), UTP_FailResult(o, TRUE)))
        /\ UNCHANGED <<saldo, withdraws, transfers, nextId>>
     \/ /\ Step(p, Fail(Logged(o, "topup.update_amount", FALSE), UTP_FailResult(o, FALSE)))
        /\ DbUnchanged

\* topup_repository.find_by_id(input.topup_id) ... ? and the final match
UTP_Refetch(p) ==
  LET o == ops[p] IN
  /\ o.pc = "utp_refetch"
  /\ DbUnchanged
  /\ \/ Step(p, Fail(Logged(o, "topup.find_by_id", FALSE), Err("StoreError", "utp_refetch")))
     \/ /\ ById(topups, o.id) = {}
        /\ Step(p, Fail(Logged(o, "topup.find_by_id", TRUE), Err("NotFound", "utp_refetch")))
     \/ /\ ById(topups, o.id) # {}
        /\ Step(p, Succeed(Logged(o, "topup.find_by_id", TRUE)))

UpdateTopup(p) ==
  \/ UTP_User(p) \/ UTP_Find(p) \/ UTP_UpdateAmount(p) \/ UTP_FindSaldo(p)
  \/ UTP_UpdateSaldo(p) \/ UTP_RollbackAmount(p) \/ UTP_Refetch(p)

\* ============================================ WithdrawService::create_withdraw
CW_Start(p) ==
  \E u \in UserIds, amt \in Amounts :
    Begin(p, "create_withdraw", "cw_find_saldo", u, 0, amt, 0)

\* faulty variant of CW_Insufficient (C30): no sufficiency check
CW_Insufficient_Never(total, amount) == FALSE

\* faulty variant of CW_Insufficient (C3): the comparison the wrong way round
CW_Insufficient_Reversed(total, amount) == total > amount

\* if saldo_ref.total_balance < input.withdraw_amount { return Err(..) }
CW_Insufficient(total, amount) == total < amount

\* faulty variant of CW_NewTotal (C11): the amount credited, not debited
CW_NewTotal_Add(total, amount) == PlainAdd(total, amount)

\* new_total_balance = saldo_ref.total_balance - input.withdraw_amount
CW_NewTotal(total, amount) == PlainSub(total, amount)

\* saldo_repository.find_by_user_id(input.user_id), the sufficiency check and
\* the subtraction
CW_FindSaldo(p) ==
  LET o == ops[p] IN
  /\ o.pc = "cw_find_saldo"
  /\ DbUnchanged
  /\ \/ Step(p, Fail(Logged(o, "saldo.find_by_user_id", FALSE),
                     Err("NotFound", "cw_find_saldo")))
     \/ /\ ~HasSaldo(o.user)
        /\ Step(p, Fail(Logged(o, "saldo.find_by_user_id", TRUE),
                        Err("NotFound", "cw_find_saldo")))
     \/ /\ HasSaldo(o.user)
        /\ LET o1 == Logged(o, "saldo.find_by_user_id", TRUE) IN
           IF CW_Insufficient(Total(o.user), o.amount)
             THEN Step(p, Fail(o1, Err("Custom", "cw_insufficient")))
             ELSE \E nb \in CW_NewTotal(Total(o.user), o.amount) :
                    IF nb = None THEN Step(p, Panic(o1))
                    ELSE Step(p, Goto([o1 EXCEPT !.rd = Total(o.user), !.nw = nb[1]],
                                      "cw_update_saldo"))

\* faulty variant of CW_UpdateSaldo (C28): the store subtracts the amount from
\* the total it holds at the time of the write, not from the earlier read
CW_UpdateSaldo_Decrement(p) ==
  LET o == ops[p] IN
  /\ o.pc = "cw_update_saldo"
  /\ \/ /\ HasSaldo(o.user)
        /\ saldo' = SetWithdraw(saldo, o.user, Total(o.user) - o.amount,
                                Some(o.amount), Some(opCount))
        /\ Step(p, Goto(Logged(o, "saldo.update_saldo_withdraw", TRUE), "cw_create"))
        /\ UNCHANGED <<topups, withdraws, transfers, nextId>>
     \/ /\ Step(p, Fail(Logged(o, "saldo.update_saldo_withdraw", FALSE),
                        Err("StoreError", "cw_update_saldo")))
        /\ DbUnchanged

\* saldo_repository.update_saldo_withdraw(&UpdateSaldoWithdraw {..}) ... ?
CW_UpdateSaldo(p) ==
  LET o == ops[p] IN
  /\ o.pc = "cw_update_saldo"
  /\ \/ /\ HasSaldo(o.user)
        /\ saldo' = SetWithdraw(saldo, o.user, o.nw, Some(o.amount), Some(opCount))
        /\ Step(p, Goto(Logged(o, "saldo.update_saldo_withdraw", TRUE), "cw_create"))
        /\ UNCHANGED <<topups, withdraws, transfers, nextId>>
     \/ /\ Step(p, Fail(Logged(o, "saldo.update_saldo_withdraw", FALSE),
                        Err("StoreError", "cw_update_saldo")))
        /\ DbUnchanged

\* faulty variant of CW_Create (C12): a failed create puts the balance row
\* back as it was read before returning the error
CW_Create_Compensating(p) ==
  LET o == ops[p] IN
  /\ o.pc = "cw_create"
  /\ \/ /\ withdraws' = withdraws \cup
                          {WithdrawRow(nextId.withdraw, o.user, o.amount, opCount)}
        /\ nextId' = BumpId("withdraw")
        /\ Step(p, Succeed([Logged(o, "withdraw.create", TRUE)
                              EXCEPT !.rec = nextId.withdraw]))
        /\ UNCHANGED <<saldo, topups, transfers>>
     \/ /\ saldo' = SetWithdraw(saldo, o.user, o.rd, None, None)
        /\ Step(p, Fail(Logged(o, "withdraw.create", FALSE),
                        Err("StoreError", "cw_create")))
        /\ UNCHANGED <<topups, withdraws, transfers, nextId>>

\* withdraw_repository.create(input) ... ?
CW_Create(p) ==
  LET o == ops[p] IN
  /\ o.pc = "cw_create"
  /\ \/ /\ withdraws' = withdraws \cup
                          {WithdrawRow(nextId.withdraw, o.user, o.amount, opCount)}
        /\ nextId' = BumpId("withdraw")
        /\ Step(p, Succeed([Logged(o, "withdraw.create", TRUE)
                              EXCEPT !.rec = nextId.withdraw]))
        /\ UNCHANGED <<saldo, topups, transfers>>
     \/ /\ Step(p, Fail(Logged(o, "withdraw.create", FALSE),
                        Err("StoreError", "cw_create")))
        /\ DbUnchanged

CreateWithdraw(p) == CW_FindSaldo(p) \/ CW_UpdateSaldo(p) \/ CW_Create(p)

\* ============================================ WithdrawService::update_withdraw
UW_Start(p) ==
  \E id \in RecordIds, u \in UserIds, amt \in Amounts :
    Begin(p, "update_withdraw", "uw_find", u, 0, amt, id)

\* withdraw_repository.find_by_id(input.withdraw_id) .map_err(..) ... ?
\* (the Option inside Ok is bound to _withdraw and never looked at)
UW_Find(p) ==
  LET o == ops[p] IN
  /\ o.pc = "uw_find"
  /\ DbUnchanged
  /\ \/ Step(p, Fail(Logged(o, "withdraw.find_by_id", FALSE), Err("NotFound", "uw_find")))
     \/ Step(p, Goto(Logged(o, "withdraw.find_by_id", TRUE), "uw_find_saldo"))

\* faulty variant of UW_NewTotal (C18): the amount credited, not debited
UW_NewTotal_Add(total, amount) == PlainAdd(total, amount)

\* new_total_balance = saldo_ref.total_balance - input.withdraw_amount
UW_NewTotal(total, amount) == PlainSub(total, amount)

\* saldo_repository.find_by_user_id(input.user_id) and the subtraction
UW_FindSaldo(p) ==
  LET o == ops[p] IN
  /\ o.pc = "uw_find_saldo"
  /\ DbUnchanged
  /\ \/ Step(p, Fail(Logged(o, "saldo.find_by_user_id", FALSE),
                     Err("NotFound", "uw_find_saldo")))
     \/ /\ ~HasSaldo(o.user)
        /\ Step(p, Fail(Logged(o, "saldo.find_by_user_id", TRUE),
                        Err("NotFound", "uw_find_saldo")))
     \/ /\ HasSaldo(o.user)
        /\ \E nb \in UW_NewTotal(Total(o.user), o.amount) :
             LET o1 == Logged(o, "saldo.find_by_user_id", TRUE) IN
             IF nb = None THEN Step(p, Panic(o1))
             ELSE Step(p, Goto([o1 EXCEPT !.rd = Total(o.user), !.nw = nb[1]],
                               "uw_update"))

\* updated_withdraw = withdraw_repository.update(input)
UW_Update(p) ==
  LET o == ops[p] IN
  /\ o.pc = "uw_update"
  /\ \/ /\ ById(withdraws, o.id) # {}
        /\ withdraws' = SetAmount(withdraws, o.id, o.amount)
        /\ Step(p, Goto([Logged(o, "withdraw.update", TRUE) EXCEPT !.rec = o.id],
                        "uw_update_saldo"))
        /\ UNCHANGED <<saldo, topups, transfers, nextId>>
     \/ /\ Step(p, Goto([Logged(o, "withdraw.update", FALSE)
                           EXCEPT !.err = Err("StoreError", "uw_update")],
                        "uw_rollback_saldo"))
        /\ DbUnchanged

\* the error update_withdraw returns when the rollback write
\* (update_saldo_withdraw(..).await?) has itself failed
UW_RollbackFailResult(o) == Err("StoreError", "uw_rollback_saldo")

\* update_saldo_withdraw(total_balance: saldo_ref.total_balance, None, None) ... ?
\* then return Err(err.into())
UW_RollbackSaldo(p) ==
  LET o == ops[p] IN
  /\ o.pc = "uw_rollback_saldo"
  /\ \/ /\ HasSaldo(o.user)
        /\ saldo' = SetWithdraw(saldo, o.user, o.rd, None, None)
        /\ Step(p, Fail(Logged(o, "saldo.update_saldo_withdraw", TRUE), o.err))
        /\ UNCHANGED <<topups, withdraws, transfers, nextId>>
     \/ /\ Step(p, Fail(Logged(o, "saldo.update_saldo_withdraw", FALSE),
                        UW_RollbackFailResult(o)))
        /\ DbUnchanged

\* update_saldo_withdraw(total_balance: new_total_balance, Some(amount), Some(now)) ... ?
UW_UpdateSaldo(p) ==
  LET o == ops[p] IN
  /\ o.pc = "uw_update_saldo"
  /\ \/ /\ HasSaldo(o.user)
        /\ saldo' = SetWithdraw(saldo, o.user, o.nw, Some(o.amount), Some(opCount))
        /\ Step(p, Succeed(Logged(o, "saldo.update_saldo_withdraw", TRUE)))
        /\ UNCHANGED <<topups, withdraws, transfers, nextId>>
     \/ /\ Step(p, Fail(Logged(o, "saldo.update_saldo_withdraw", FALSE),
                        Err("StoreError", "uw_update_saldo")))
        /\ DbUnchanged

UpdateWithdraw(p) ==
  \/ UW_Find(p) \/ UW_FindSaldo(p) \/ UW_Update(p) \/ UW_RollbackSaldo(p)
  \/ UW_UpdateSaldo(p)

\* ====================================================== the delete methods
\* user_repository.find_by_id(id) .map_err(..)? and then user.unwrap(): Err
\* is NotFound, Ok(None) panics in unwrap, Ok(Some(user)) goes on
FindUserUnwrap(p, at, next) ==
  LET o == ops[p] IN
  /\ o.pc = at
  /\ DbUnchanged
  /\ \/ Step(p, Fail(Logged(o, "user.find_by_id", FALSE), Err("NotFound", at)))
     \/ /\ o.id \in Users
        /\ Step(p, Goto(Logged(o, "user.find_by_id", TRUE), next))
     \/ /\ o.id \notin Users
        /\ Step(p, Panic(Logged(o, "user.find_by_id", TRUE)))

\* <journal>.find_by_user(user_id) .await? and the match on the Option
FindByUser(p, at, call, owned, next) ==
  LET o == ops[p] IN
  /\ o.pc = at
  /\ DbUnchanged
  /\ \/ Step(p, Fail(Logged(o, call, FALSE), Err("StoreError", at)))
     \/ /\ owned = {}
        /\ Step(p, Fail(Logged(o, call, TRUE), Err("NotFound", at)))
     \/ \E r \in owned :
          Step(p, Goto([Logged(o, call, TRUE) EXCEPT !.rec = r.id], next))

\* ------------------------------------------- TopupService::delete_topup
DT_Start(p) ==
  \E id \in UserIds : Begin(p, "delete_topup", "dt_user", id, 0, 0, id)

DT_User(p) == FindUserUnwrap(p, "dt_user", "dt_find")

DT_Find(p) ==
  FindByUser(p, "dt_find", "topup.find_by_user", OwnedBy(topups, ops[p].id),
             "dt_delete")

\* faulty variant of DT_Delete (C34): the delete takes the owner's balance row
\* with it
DT_Delete_WithBalance(p) ==
  LET o == ops[p] IN
  /\ o.pc = "dt_delete"
  /\ \/ /\ topups' = DeleteById(topups, o.rec)
        /\ saldo' = DeleteSaldoRow(saldo, o.id)
        /\ Step(p, Succeed(Logged(o, "topup.delete", TRUE)))
        /\ UNCHANGED <<withdraws, transfers, nextId>>
     \/ /\ Step(p, Fail(Logged(o, "topup.delete", FALSE), Err("StoreError", "dt_delete")))
        /\ DbUnchanged

\* topup_repository.delete(existing_topup.unwrap().topup_id) ... ?
DT_Delete(p) ==
  LET o == ops[p] IN
  /\ o.pc = "dt_delete"
  /\ \/ /\ topups' = DeleteById(topups, o.rec)
        /\ Step(p, Succeed(Logged(o, "topup.delete", TRUE)))
        /\ UNCHANGED <<saldo, withdraws, transfers, nextId>>
     \/ /\ Step(p, Fail(Logged(o, "topup.delete", FALSE), Err("StoreError", "dt_delete")))
        /\ DbUnchanged

DeleteTopup(p) == DT_User(p) \/ DT_Find(p) \/ DT_Delete(p)

\* --------------------------------------- WithdrawService::delete_withdraw
DW_Start(p) ==
  \E id \in UserIds : Begin(p, "delete_withdraw", "dw_user", id, 0, 0, id)

DW_User(p) == FindUserUnwrap(p, "dw_user", "dw_find")

DW_Find(p) ==
  FindByUser(p, "dw_find", "withdraw.find_by_user", OwnedBy(withdraws, ops[p].id),
             "dw_delete")

\* withdraw_repository.delete(existing.unwrap().withdraw_id) ... ?
DW_Delete(p) ==
  LET o == ops[p] IN
  /\ o.pc = "dw_delete"
  /\ \/ /\ withdraws' = DeleteById(withdraws, o.rec)
        /\ Step(p, Succeed(Logged(o, "withdraw.delete", TRUE)))
        /\ UNCHANGED <<saldo, topups, transfers, nextId>>
     \/ /\ Step(p, Fail(Logged(o, "withdraw.delete", FALSE), Err("StoreError", "dw_delete")))
        /\ DbUnchanged

DeleteWithdraw(p) == DW_User(p) \/ DW_Find(p) \/ DW_Delete(p)

\* --------------------------------------- TransferService::delete_transfer
DF_Start(p) ==
  \E id \in UserIds : Begin(p, "delete_transfer", "df_user", id, 0, 0, id)

DF_User(p) == FindUserUnwrap(p, "df_user", "df_find")

DF_Find(p) ==
  FindByUser(p, "df_find", "transfer.find_by_user", TransfersOf(transfers, ops[p].id),
             "df_delete")

\* transfer_repository.delete(existing_transfer.unwrap().transfer_id) ... ?
DF_Delete(p) ==
  LET o == ops[p] IN
  /\ o.pc = "df_delete"
  /\ \/ /\ transfers' = DeleteById(transfers, o.rec)
        /\ Step(p, Succeed(Logged(o, "transfer.delete", TRUE)))
        /\ UNCHANGED <<saldo, topups, withdraws, nextId>>
     \/ /\ Step(p, Fail(Logged(o, "transfer.delete", FALSE), Err("StoreError", "df_delete")))
        /\ DbUnchanged

DeleteTransfer(p) == DF_User(p) \/ DF_Find(p) \/ DF_Delete(p)

\* --------------------------------------------- SaldoService::delete_saldo
DS_Start(p) ==
  \E id \in UserIds : Begin(p, "delete_saldo", "ds_user", id, 0, 0, id)

DS_User(p) == FindUserUnwrap(p, "ds_user", "ds_find")

\* saldo_repository.find_by_user_id(user_id) .await? and the match
DS_Find(p) ==
  LET o == ops[p] IN
  /\ o.pc = "ds_find"
  /\ DbUnchanged
  /\ \/ Step(p, Fail(Logged(o, "saldo.find_by_user_id", FALSE),
                     Err("StoreError", "ds_find")))
     \/ /\ ~HasSaldo(o.id)
        /\ Step(p, Fail(Logged(o, "saldo.find_by_user_id", TRUE),
                        Err("NotFound", "ds_find")))
     \/ /\ HasSaldo(o.id)
        /\ Step(p, Goto([Logged(o, "saldo.find_by_user_id", TRUE) EXCEPT !.rec = o.id],
                        "ds_delete"))

\* saldo_repository.delete(existing_saldo.unwrap().saldo_id) ... ?
DS_Delete(p) ==
  LET o == ops[p] IN
  /\ o.pc = "ds_delete"
  /\ \/ /\ saldo' = DeleteSaldoRow(saldo, o.rec)
        /\ Step(p, Succeed(Logged(o, "saldo.delete", TRUE)))
        /\ UNCHANGED <<topups, withdraws, transfers, nextId>>
     \/ /\ Step(p, Fail(Logged(o, "saldo.delete", FALSE), Err("StoreError", "ds_delete")))
        /\ DbUnchanged

DeleteSaldo(p) == DS_User(p) \/ DS_Find(p) \/ DS_Delete(p)

\* ------------------------------------------------------- specifications
TransferNext ==
  \E p \in {1} : CT_Start(p) \/ CreateTransfer(p) \/ UT_Start(p) \/ UpdateTransfer(p)

InitTransfer == InitTables(FALSE, FALSE, TRUE) /\ InitTasks

SpecTransfer == InitTransfer /\ [][TransferNext]_vars

\* the runtime keeps polling a task whose store call has returned, so a call
\* that can take a step eventually takes one
SpecTransferFair == SpecTransfer /\ WF_vars(TransferNext)

TopupNext ==
  \E p \in {1} : TP_Start(p) \/ CreateTopup(p) \/ UTP_Start(p) \/ UpdateTopup(p)

InitTopup == InitTables(TRUE, FALSE, FALSE) /\ InitTasks

SpecTopup == InitTopup /\ [][TopupNext]_vars

\* create_topup requests served concurrently, one per task; the tasks
\* interleave at the awaits of the repository calls
TP_Arrive(p) ==
  \E u \in UserIds, amt \in Amounts :
    Arrive(p, "create_topup", "tp_user", u, 0, amt, 0)

TopupRaceNext == \E p \in Procs : TP_Arrive(p) \/ CreateTopup(p)

SpecTopupRace == InitTopup /\ [][TopupRaceNext]_vars

WithdrawNext ==
  \E p \in {1} : CW_Start(p) \/ CreateWithdraw(p) \/ UW_Start(p) \/ UpdateWithdraw(p)

InitWithdraw == InitTables(FALSE, TRUE, FALSE) /\ InitTasks

SpecWithdraw == InitWithdraw /\ [][WithdrawNext]_vars

\* a create_transfer and a create_topup served concurrently, each on its task
CT_Arrive(p) ==
  \E from \in UserIds, to \in UserIds, amt \in Amounts :
    Arrive(p, "create_transfer", "ct_sender_user", from, to, amt, 0)

TransferTopupRaceNext ==
  \/ CT_Arrive(1) \/ CreateTransfer(1)
  \/ TP_Arrive(2) \/ CreateTopup(2)

InitTransferTopupRace == InitTables(FALSE, FALSE, FALSE) /\ InitTasks

SpecTransferTopupRace == InitTransferTopupRace /\ [][TransferTopupRaceNext]_vars

\* the two methods that write a journal row before the balance
CreateNext ==
  \E p \in {1} : TP_Start(p) \/ CreateTopup(p) \/ CT_Start(p) \/ CreateTransfer(p)

InitCreate == InitTables(FALSE, FALSE, FALSE) /\ InitTasks

SpecCreate == InitCreate /\ [][CreateNext]_vars

\* create_withdraw requests served concurrently, one per task
CW_Arrive(p) ==
  \E u \in UserIds, amt \in Amounts :
    Arrive(p, "create_withdraw", "cw_find_saldo", u, 0, amt, 0)

WithdrawRaceNext == \E p \in Procs : CW_Arrive(p) \/ CreateWithdraw(p)

SpecWithdrawRace == InitWithdraw /\ [][WithdrawRaceNext]_vars

\* the delete methods, over journals that hold up to two rows left by earlier
\* creates: serial ids, each row owned by either user
JournalOwners == UNION {[1..n -> Users] : n \in 0..2}

InitDelete ==
  /\ saldo \in [UserIds -> {None, Some(SaldoRow(1, None, None))}]
  /\ \A u \in UserIds \ Users : saldo[u] = None
  /\ \E own \in JournalOwners :
       topups = {TopupRow(i, own[i], 1) : i \in DOMAIN own}
  /\ \E own \in JournalOwners :
       withdraws = {WithdrawRow(i, own[i], 1, 0) : i \in DOMAIN own}
  /\ \E own \in JournalOwners :
       transfers = {TransferRow(i, own[i], 3 - own[i], 1) : i \in DOMAIN own}
  /\ nextId = [topup |-> Cardinality(topups) + 1,
               withdraw |-> Cardinality(withdraws) + 1,
               transfer |-> Cardinality(transfers) + 1]
  /\ InitTasks

DeleteNext ==
  \E p \in {1} :
    \/ DT_Start(p) \/ DeleteTopup(p) \/ DW_Start(p) \/ DeleteWithdraw(p)
    \/ DF_Start(p) \/ DeleteTransfer(p) \/ DS_Start(p) \/ DeleteSaldo(p)

SpecDelete == InitDelete /\ [][DeleteNext]_vars

\* every service together
Init == InitTables(TRUE, TRUE, TRUE) /\ InitTasks

Next ==
  \E p \in {1} :
    \/ CT_Start(p) \/ CreateTransfer(p) \/ UT_Start(p) \/ UpdateTransfer(p)
    \/ TP_Start(p) \/ CreateTopup(p) \/ UTP_Start(p) \/ UpdateTopup(p)
    \/ CW_Start(p) \/ CreateWithdraw(p) \/ UW_Start(p) \/ UpdateWithdraw(p)

Spec == Init /\ [][Next]_vars


\* --------------------------------------------------------- observations
Returned(p, kind) == ops[p].kind = kind /\ ops[p].pc = "done"
PreTotal(p, u) == pre[p].saldo[u][1].total
PreHasSaldo(p, u) == pre[p].saldo[u] # None

\* the calls of the task's log made at step `at`, and those that failed
CallsAt(o, at) == {i \in DOMAIN o.log : o.log[i].at = at}
OkAt(o, at) == \E i \in CallsAt(o, at) : o.log[i].ok
FailedAt(o, at) == \E i \in CallsAt(o, at) : ~o.log[i].ok
FailedCalls(o) == {i \in DOMAIN o.log : ~o.log[i].ok}

\* the compensating steps of the five compensating methods
CompensationSteps ==
  {"ct_rollback_delete", "ct_undo_delete", "ct_undo_sender", "ut_undo_sender",
   "tp_rollback", "utp_rollback_amount", "uw_rollback_saldo"}
CompensationsOk(o) ==
  \A i \in DOMAIN o.log : o.log[i].at \in CompensationSteps => o.log[i].ok

\* ------------------------------------------------------------------ C1
\* C1: a create_transfer from X to Y, X # Y, that returns success leaves
\* balance(X) = before - A and balance(Y) = before + A, so that what X lost is
\* what Y gained, and adds exactly one transfer row, of amount A from X to Y.
C1_Conservation ==
  \A p \in Procs :
    LET o == ops[p] IN
    (Returned(p, "create_transfer") /\ o.status = "ok" /\ o.user # o.to) =>
      /\ PreHasSaldo(p, o.user) /\ PreHasSaldo(p, o.to)
      /\ HasSaldo(o.user) /\ HasSaldo(o.to)
      /\ Total(o.user) = PreTotal(p, o.user) - o.amount
      /\ Total(o.to) - o.amount = PreTotal(p, o.to)
      /\ PreTotal(p, o.user) - Total(o.user) = Total(o.to) - PreTotal(p, o.to)
      /\ pre[p].transfers \subseteq transfers
      /\ transfers \ pre[p].transfers = {TransferRow(o.rec, o.user, o.to, o.amount)}

C1_Witness ==
  \E p \in Procs :
    /\ Returned(p, "create_transfer") /\ ops[p].status = "ok"
    /\ ops[p].user # ops[p].to
    /\ PreTotal(p, ops[p].user) >= ops[p].amount

\* ------------------------------------------------------------------ C2
\* C2: a create_transfer whose amount is greater than the sender's total
\* balance, once it has read that balance, returns the insufficient-balance
\* error and leaves every balance and the transfer journal as they were.
C2_TransferInsufficient ==
  \A p \in Procs :
    LET o == ops[p] IN
    (/\ Returned(p, "create_transfer")
     /\ OkAt(o, "ct_find_sender")
     /\ PreHasSaldo(p, o.user)
     /\ PreTotal(p, o.user) < o.amount) =>
      /\ o.status = "err" /\ o.err.kind = "Custom"
      /\ saldo = pre[p].saldo
      /\ transfers = pre[p].transfers

C4_NonNegative ==
  (\A p \in Procs : Resting(p)) =>
    \A u \in UserIds : HasSaldo(u) => Total(u) >= 0

\* ------------------------------------------------------------------ C5
\* C5: when create_transfer's receiver write fails after the sender write
\* went through, and both compensating calls succeed, the sender's total is
\* back at its value before the call, the receiver's row is untouched, the
\* transfer row of the call is gone and the receiver write's error is returned.
C5_TransferCompensation ==
  \A p \in Procs :
    LET o == ops[p] IN
    (/\ Returned(p, "create_transfer")
     /\ OkAt(o, "ct_update_sender")
     /\ FailedAt(o, "ct_update_receiver")
     /\ OkAt(o, "ct_undo_delete") /\ OkAt(o, "ct_undo_sender")) =>
      /\ Total(o.user) = PreTotal(p, o.user)
      /\ saldo = pre[p].saldo
      /\ ById(transfers, o.rec) = {}
      /\ transfers = pre[p].transfers
      /\ o.status = "err"
      /\ o.err = Err("StoreError", "ct_update_receiver")

C5_Witness ==
  \E p \in Procs :
    /\ Returned(p, "create_transfer")
    /\ ops[p].user # ops[p].to
    /\ FailedAt(ops[p], "ct_update_receiver")
    /\ OkAt(ops[p], "ct_undo_delete") /\ OkAt(ops[p], "ct_undo_sender")

\* ------------------------------------------------------------------ C6
\* C6: when a forward call of a compensating method fails and a compensating
\* call it triggers fails as well, the method returns the error of the forward
\* call: the returned error comes from the step of the first failed call.
C6_PrimaryErrorReturned ==
  \A p \in Procs :
    LET o == ops[p] IN
    (/\ o.pc = "done"
     /\ o.kind \in {"create_topup", "update_topup", "update_withdraw",
                    "create_transfer", "update_transfer"}
     /\ \E i \in FailedCalls(o) : o.log[i].at \in CompensationSteps) =>
      /\ o.status = "err"
      /\ \E i \in FailedCalls(o) :
           /\ \A j \in FailedCalls(o) : i <= j
           /\ o.err.at = o.log[i].at

\* ------------------------------------------------------------------ C7
\* C7: a create_transfer that returns an error, every compensating call it
\* made having succeeded, leaves no transfer row of its own and leaves the
\* sender's and the receiver's balance as they were.
C7_NoOrphanTransfer ==
  \A p \in Procs :
    LET o == ops[p] IN
    (/\ Returned(p, "create_transfer")
     /\ o.status = "err"
     /\ CompensationsOk(o)) =>
      /\ transfers = pre[p].transfers
      /\ saldo[o.user] = pre[p].saldo[o.user]
      /\ saldo[o.to] = pre[p].saldo[o.to]

\* ------------------------------------------------------------------ C8
\* C8: a create_topup(user, amount) that returns success leaves exactly one
\* new topup row (user, amount), and the user's total is the previous total
\* plus amount, or amount in a new balance row if the user had none.
C8_TopupEffect ==
  \A p \in Procs :
    LET o == ops[p] IN
    (Returned(p, "create_topup") /\ o.status = "ok") =>
      /\ pre[p].topups \subseteq topups
      /\ topups \ pre[p].topups = {TopupRow(o.rec, o.user, o.amount)}
      /\ HasSaldo(o.user)
      /\ IF PreHasSaldo(p, o.user)
           THEN checked_add(PreTotal(p, o.user), o.amount) = Some(Total(o.user))
           ELSE Total(o.user) = o.amount

\* ------------------------------------------------------------------ C9
\* C9: when create_topup's balance step fails after the topup row was created
\* (the balance read, the balance update or the balance creation fails) and
\* the compensating delete succeeds, the topup row of the call is gone, the
\* balances are as they were and an error is returned.
C9_TopupCompensation ==
  \A p \in Procs :
    LET o == ops[p] IN
    (/\ Returned(p, "create_topup")
     /\ OkAt(o, "tp_create")
     /\ \/ FailedAt(o, "tp_find_saldo") \/ FailedAt(o, "tp_update_saldo")
        \/ FailedAt(o, "tp_create_saldo")
     /\ OkAt(o, "tp_rollback")) =>
      /\ ById(topups, o.rec) = {}
      /\ topups = pre[p].topups
      /\ saldo = pre[p].saldo
      /\ o.status = "err"

C9_Witness ==
  \E p \in Procs :
    /\ Returned(p, "create_topup")
    /\ FailedAt(ops[p], "tp_update_saldo")
    /\ OkAt(ops[p], "tp_rollback")
    /\ ops[p].user # ops[p].rec

\* ------------------------------------------------------------------ C10
\* C10: when create_topup's balance read fails with a store error, the error
\* create_topup returns is that store error, not an error of another kind.
C10_TopupErrorIdentity ==
  \A p \in Procs :
    LET o == ops[p] IN
    (Returned(p, "create_topup") /\ FailedAt(o, "tp_find_saldo")) =>
      o.status = "err" /\ o.err.kind = "StoreError"

\* ------------------------------------------------------------------ C11
\* C11: a create_withdraw(user, amount) that returns success, the balance
\* read being at least amount, leaves the user's total at the previous total
\* minus amount, the balance row's last withdraw amount at amount and its last
\* withdraw time set, and exactly one new withdraw row (user, amount) that
\* carries a time.
C11_WithdrawEffect ==
  \A p \in Procs :
    LET o == ops[p] IN
    (/\ Returned(p, "create_withdraw") /\ o.status = "ok"
     /\ PreHasSaldo(p, o.user) /\ PreTotal(p, o.user) >= o.amount) =>
      /\ HasSaldo(o.user)
      /\ checked_sub(PreTotal(p, o.user), o.amount) = Some(Total(o.user))
      /\ saldo[o.user][1].wamount = Some(o.amount)
      /\ saldo[o.user][1].wtime # None
      /\ \A u \in UserIds \ {o.user} : saldo[u] = pre[p].saldo[u]
      /\ pre[p].withdraws \subseteq withdraws
      /\ \E r \in withdraws :
           /\ withdraws \ pre[p].withdraws = {r}
           /\ r.id = o.rec /\ r.user = o.user /\ r.amount = o.amount
           /\ r.time >= 1

C11_Witness ==
  \E p \in Procs :
    /\ Returned(p, "create_withdraw") /\ ops[p].status = "ok"
    /\ PreTotal(p, ops[p].user) >= ops[p].amount
    /\ Total(ops[p].user) < PreTotal(p, ops[p].user)

\* ------------------------------------------------------------------ C12
\* C12: create_withdraw writes the balance before it creates the withdraw
\* row; when the creation fails after the balance write succeeded, the call
\* returns the creation's error, no further balance write is issued, the
\* balance stays debited by amount and the journal holds no row for the call.
C12_WithdrawNoCompensation ==
  \A p \in Procs :
    LET o == ops[p] IN
    /\ (o.kind = "create_withdraw" /\ CallsAt(o, "cw_create") # {}) =>
         \E i \in CallsAt(o, "cw_update_saldo") :
           /\ o.log[i].ok
           /\ \A j \in CallsAt(o, "cw_create") : i < j
    /\ (Returned(p, "create_withdraw") /\ FailedAt(o, "cw_create")) =>
         /\ o.status = "err" /\ o.err = Err("StoreError", "cw_create")
         /\ {i \in DOMAIN o.log : o.log[i].call = "saldo.update_saldo_withdraw"}
              = CallsAt(o, "cw_update_saldo")
         /\ Cardinality(CallsAt(o, "cw_update_saldo")) = 1
         /\ HasSaldo(o.user)
         /\ checked_sub(PreTotal(p, o.user), o.amount) = Some(Total(o.user))
         /\ saldo[o.user][1].wamount = Some(o.amount)
         /\ withdraws = pre[p].withdraws

C12_Witness ==
  \E p \in Procs :
    /\ Returned(p, "create_withdraw")
    /\ OkAt(ops[p], "cw_update_saldo") /\ FailedAt(ops[p], "cw_create")
    /\ Total(ops[p].user) < PreTotal(p, ops[p].user)

\* ------------------------------------------------------------------ C14
\* C14: when create_transfer's sender balance write fails, the delete of the
\* transfer row the call created is issued (and the row is gone once the
\* delete succeeds), the receiver's balance is neither read nor written, every
\* balance is as before, and the error returned is the sender write's error
\* whether or not the delete succeeds.
C14_SenderWriteFailure ==
  \A p \in Procs :
    LET o == ops[p] IN
    (Returned(p, "create_transfer") /\ FailedAt(o, "ct_update_sender")) =>
      /\ o.status = "err" /\ o.err = Err("StoreError", "ct_update_sender")
      /\ CallsAt(o, "ct_rollback_delete") # {}
      /\ \A i \in CallsAt(o, "ct_rollback_delete") :
           o.log[i].call = "transfer.delete"
      /\ OkAt(o, "ct_rollback_delete") =>
           ById(transfers, o.rec) = {} /\ transfers = pre[p].transfers
      /\ CallsAt(o, "ct_find_receiver") = {}
      /\ CallsAt(o, "ct_update_receiver") = {}
      /\ saldo = pre[p].saldo

C14_Witness ==
  \E p \in Procs :
    /\ Returned(p, "create_transfer")
    /\ FailedAt(ops[p], "ct_update_sender")
    /\ FailedAt(ops[p], "ct_rollback_delete")
    /\ ById(transfers, ops[p].rec) # {}

\* ------------------------------------------------------------------ C15
\* C15: an update_transfer(id, new_amount) that returns success on a row of
\* amount old between distinct users leaves, with delta = new_amount - old,
\* the sender's total at its previous value minus delta and the receiver's at
\* its previous value plus delta, so that their sum is unchanged, and the
\* row's amount at new_amount.
C15_TransferUpdateEffect ==
  \A p \in Procs :
    LET o == ops[p] IN
    (Returned(p, "update_transfer") /\ o.status = "ok" /\ o.user # o.to) =>
      /\ o.diff = o.amount - o.old
      /\ HasSaldo(o.user) /\ HasSaldo(o.to)
      /\ checked_sub(PreTotal(p, o.user), o.diff) = Some(Total(o.user))
      /\ checked_add(PreTotal(p, o.to), o.diff) = Some(Total(o.to))
      /\ PreTotal(p, o.user) - Total(o.user) = Total(o.to) - PreTotal(p, o.to)
      /\ \E t \in ById(pre[p].transfers, o.id) :
           transfers = (pre[p].transfers \ {t}) \cup
                         {TransferRow(t.id, t.from, t.to, o.amount)}

\* ------------------------------------------------------------------ C16
\* C16: an update_transfer for which the sender's total minus
\* (new_amount - existing amount) is below zero is rejected with the
\* insufficient-balance error before any write: both balances and the row's
\* amount are as before.
C16_TransferUpdateInsufficient ==
  \A p \in Procs :
    LET o == ops[p] IN
    (/\ Returned(p, "update_transfer")
     /\ OkAt(o, "ut_find_sender")
     /\ PreHasSaldo(p, o.user)
     /\ PreTotal(p, o.user) < o.diff) =>
      /\ o.status = "err" /\ o.err = Err("Custom", "ut_new_sender_balance")
      /\ \A i \in DOMAIN o.log :
           o.log[i].call \in {"transfer.find_by_id", "saldo.find_by_user_id"}
      /\ saldo = pre[p].saldo
      /\ transfers = pre[p].transfers

C16_Witness ==
  \E p \in Procs :
    /\ Returned(p, "update_transfer")
    /\ OkAt(ops[p], "ut_find_sender")
    /\ PreHasSaldo(p, ops[p].user)
    /\ PreTotal(p, ops[p].user) < ops[p].diff
    /\ ops[p].err.kind = "Custom"

\* ------------------------------------------------------------------ C17
\* C17: when update_transfer's receiver balance write fails after the sender
\* balance write succeeded, and the compensating sender write succeeds, the
\* sender's total is its value before the call, the receiver's balance and
\* the row's amount are as before, and the receiver write's error is returned.
C17_TransferUpdateCompensation ==
  \A p \in Procs :
    LET o == ops[p] IN
    (/\ Returned(p, "update_transfer")
     /\ OkAt(o, "ut_update_sender")
     /\ FailedAt(o, "ut_update_receiver")
     /\ OkAt(o, "ut_undo_sender")) =>
      /\ Total(o.user) = PreTotal(p, o.user)
      /\ saldo = pre[p].saldo
      /\ transfers = pre[p].transfers
      /\ o.status = "err" /\ o.err = Err("StoreError", "ut_update_receiver")

C17_Witness ==
  \E p \in Procs :
    /\ Returned(p, "update_transfer")
    /\ OkAt(ops[p], "ut_update_sender")
    /\ FailedAt(ops[p], "ut_update_receiver")
    /\ OkAt(ops[p], "ut_undo_sender")
    /\ ops[p].diff # 0
    /\ ops[p].nw # ops[p].rd

\* ------------------------------------------------------------------ C18
\* C18: an update_withdraw(withdraw_id, user_id, new_amount) that returns
\* success leaves the user's total at the total before the call minus
\* new_amount, whatever the row's previous amount was, the balance row's
\* withdraw metadata at (new_amount, time of the call), and the withdraw
\* row's amount at new_amount.
C18_WithdrawUpdateArithmetic ==
  \A p \in Procs :
    LET o == ops[p] IN
    (Returned(p, "update_withdraw") /\ o.status = "ok") =>
      /\ PreHasSaldo(p, o.user) /\ HasSaldo(o.user)
      /\ checked_sub(PreTotal(p, o.user), o.amount) = Some(Total(o.user))
      /\ saldo[o.user][1].wamount = Some(o.amount)
      /\ \E t \in 1..opCount : saldo[o.user][1].wtime = Some(t)
      /\ \A u \in UserIds \ {o.user} : saldo[u] = pre[p].saldo[u]
      /\ \E r \in ById(pre[p].withdraws, o.id) :
           withdraws = (pre[p].withdraws \ {r}) \cup
                         {WithdrawRow(r.id, r.user, o.amount, r.time)}

C18_Witness ==
  \E p \in Procs :
    /\ Returned(p, "update_withdraw") /\ ops[p].status = "ok"
    /\ \E r \in ById(pre[p].withdraws, ops[p].id) : r.amount # ops[p].amount
    /\ Total(ops[p].user) < PreTotal(p, ops[p].user)

\* ------------------------------------------------------------------ C19
\* C19: when update_withdraw's update of the withdraw row fails, the balance
\* row is written with the total read before the update and with withdraw
\* amount and withdraw time None, the new total is never written, the row's
\* amount is as before, and the error of the row update is returned.
C19_WithdrawUpdateCompensation ==
  \A p \in Procs :
    LET o == ops[p] IN
    (Returned(p, "update_withdraw") /\ FailedAt(o, "uw_update")) =>
      /\ CallsAt(o, "uw_rollback_saldo") # {}
      /\ CallsAt(o, "uw_update_saldo") = {}
      /\ OkAt(o, "uw_rollback_saldo") =>
           saldo[o.user] = Some(SaldoRow(PreTotal(p, o.user), None, None))
      /\ withdraws = pre[p].withdraws
      /\ o.status = "err" /\ o.err = Err("StoreError", "uw_update")

\* ------------------------------------------------------------------ C20
\* C20: an update_withdraw whose lookup of withdraw_id finds no row returns
\* NotFound without any write, so that the user's total and withdraw metadata
\* are as before.
C20_WithdrawUpdateMissing ==
  \A p \in Procs :
    LET o == ops[p] IN
    (/\ Returned(p, "update_withdraw")
     /\ OkAt(o, "uw_find")
     /\ ById(pre[p].withdraws, o.id) = {}) =>
      /\ o.status = "err" /\ o.err.kind = "NotFound"
      /\ \A i \in DOMAIN o.log :
           o.log[i].call \in {"withdraw.find_by_id", "saldo.find_by_user_id"}
      /\ saldo = pre[p].saldo
      /\ withdraws = pre[p].withdraws

\* ------------------------------------------------------------------ C13
\* C13: two concurrent create_topup calls for the same user, whose balance
\* row holds B, with amounts a1 and a2, can interleave so that both read B
\* and both return success; then two topup rows exist and the final total is
\* B + a1 or B + a2 (the later write), not B + a1 + a2. Stated for B + a1 and
\* B + a2 within i32; the witness is the interleaving.
C13_LostUpdate ==
  \A p, q \in Procs :
    LET o1 == ops[p]
        o2 == ops[q]
    IN
    (/\ p # q
     /\ Returned(p, "create_topup") /\ o1.status = "ok"
     /\ Returned(q, "create_topup") /\ o2.status = "ok"
     /\ o1.user = o2.user
     /\ OkAt(o1, "tp_update_saldo") /\ OkAt(o2, "tp_update_saldo")
     /\ o1.rd = o2.rd
     /\ ~AddOverflows(o1.rd, o1.amount) /\ ~AddOverflows(o2.rd, o2.amount)) =>
      /\ PreHasSaldo(p, o1.user) /\ PreTotal(p, o1.user) = o1.rd
      /\ PreHasSaldo(q, o1.user) /\ PreTotal(q, o1.user) = o1.rd
      /\ o1.rec # o2.rec
      /\ {TopupRow(o1.rec, o1.user, o1.amount),
          TopupRow(o2.rec, o2.user, o2.amount)} \subseteq topups
      /\ Cardinality(topups) = Cardinality(pre[p].topups \cap pre[q].topups) + 2
      /\ Total(o1.user) \in {o1.rd + o1.amount, o1.rd + o2.amount}
      /\ Total(o1.user) < o1.rd + o1.amount + o2.amount

C13_Witness ==
  \E p, q \in Procs :
    /\ p # q
    /\ Returned(p, "create_topup") /\ ops[p].status = "ok"
    /\ Returned(q, "create_topup") /\ ops[q].status = "ok"
    /\ ops[p].user = ops[q].user
    /\ ops[p].rd = ops[q].rd
    /\ ops[p].amount # ops[q].amount
    /\ Cardinality(topups \ (pre[p].topups \cap pre[q].topups)) = 2
    /\ Total(ops[p].user) = ops[p].rd + ops[q].amount

\* ------------------------------------------------------------------ C22
\* C22: a create_topup for a user_id the user directory reports as absent
\* (the lookup succeeds and finds no user) returns NotFound before any write:
\* no topup row is created and no balance row is created or changed.
C22_TopupUserCheck ==
  \A p \in Procs :
    LET o == ops[p] IN
    (/\ Returned(p, "create_topup")
     /\ OkAt(o, "tp_user")
     /\ o.user \notin Users) =>
      /\ o.status = "err" /\ o.err.kind = "NotFound"
      /\ \A i \in DOMAIN o.log : o.log[i].call = "user.find_by_id"
      /\ topups = pre[p].topups
      /\ saldo = pre[p].saldo

\* ------------------------------------------------------------------ C23
\* C23: create_transfer looks both users up before it creates the transfer
\* row, and when the user directory reports the sender or the receiver as
\* absent it returns NotFound, creates no transfer row and changes no balance.
C23_TransferUserCheck ==
  \A p \in Procs :
    LET o == ops[p] IN
    /\ (o.kind = "create_transfer" /\ CallsAt(o, "ct_create") # {}) =>
         OkAt(o, "ct_sender_user") /\ OkAt(o, "ct_receiver_user")
    /\ (/\ Returned(p, "create_transfer")
        /\ \/ OkAt(o, "ct_sender_user") /\ o.user \notin Users
           \/ OkAt(o, "ct_receiver_user") /\ o.to \notin Users) =>
         /\ o.status = "err" /\ o.err.kind = "NotFound"
         /\ \A i \in DOMAIN o.log : o.log[i].call = "user.find_by_id"
         /\ transfers = pre[p].transfers
         /\ saldo = pre[p].saldo

\* ------------------------------------------------------------------ C24
\* C24: when, in create_transfer, the receiver's total as read plus the amount
\* is above i32::MAX, the call aborts (panics) and no value is written to the
\* receiver's balance; at the abort the sender has been debited and the
\* transfer row exists, and no compensation is made.
C24_ReceiverOverflow ==
  \A p \in Procs :
    LET o == ops[p]
        receiverRead == IF o.user = o.to THEN o.rd - o.amount
                        ELSE PreTotal(p, o.to)
    IN
    (/\ Returned(p, "create_transfer")
     /\ OkAt(o, "ct_find_receiver")
     /\ PreHasSaldo(p, o.to)
     /\ AddOverflows(receiverRead, o.amount)) =>
      /\ o.status = "panic"
      /\ CallsAt(o, "ct_update_receiver") = {}
      /\ Total(o.to) = receiverRead
      /\ Total(o.user) = PreTotal(p, o.user) - o.amount
      /\ transfers = pre[p].transfers \cup
                       {TransferRow(o.rec, o.user, o.to, o.amount)}
      /\ ById(pre[p].transfers, o.rec) = {}
      /\ \A i \in DOMAIN o.log : o.log[i].at \notin CompensationSteps

C24_Witness ==
  \E p \in Procs :
    /\ Returned(p, "create_transfer") /\ ops[p].status = "panic"
    /\ OkAt(ops[p], "ct_find_receiver")
    /\ PreTotal(p, ops[p].to) = I32Max
    /\ Total(ops[p].user) < PreTotal(p, ops[p].user)

\* ------------------------------------------------------------------ C25
\* C25: every invocation of create_topup, create_withdraw, update_withdraw,
\* create_transfer and update_transfer, whatever the store calls and the
\* arithmetic do, eventually returns one terminal result to its caller, a
\* success or a typed error, and makes no store call of a step more than once
\* (no retry). The n-th invocation is the one running while opCount = n.
C25_Methods ==
  {"create_topup", "create_withdraw", "update_withdraw",
   "create_transfer", "update_transfer"}

C25_SingleTerminalResult ==
  /\ \A p \in Procs, n \in 1..MaxOps :
       []((opCount = n /\ ops[p].kind \in C25_Methods) =>
            <>(/\ opCount = n
               /\ ops[p].pc = "done" /\ ops[p].status \in {"ok", "err"}))
  /\ [](\A p \in Procs :
          ops[p].kind \in C25_Methods =>
            \A i, j \in DOMAIN ops[p].log :
              ops[p].log[i].at = ops[p].log[j].at => i = j)

\* ------------------------------------------------------------------ C26
\* C26: an update_transfer that returns an error (sender balance missing,
\* insufficient funds, sender write failed, receiver balance missing, receiver
\* write failed, final row update failed), every compensation it attempted
\* having succeeded, leaves the sender's balance, the receiver's balance and
\* the row's amount as they were before the call.
C26_NoPartialTransferUpdate ==
  \A p \in Procs :
    LET o == ops[p] IN
    (/\ Returned(p, "update_transfer")
     /\ o.status = "err"
     /\ CompensationsOk(o)) =>
      /\ saldo = pre[p].saldo
      /\ transfers = pre[p].transfers

\* ------------------------------------------------------------------ C27
\* C27: an update_withdraw(withdraw_id, user_id, new_amount) on a balance
\* whose total is at least 0, new_amount above the total included, leaves a
\* stored total that is at least 0.
C27_WithdrawUpdateNonNegative ==
  \A p \in Procs :
    LET o == ops[p] IN
    (/\ Returned(p, "update_withdraw")
     /\ PreHasSaldo(p, o.user)
     /\ PreTotal(p, o.user) >= 0) =>
      HasSaldo(o.user) /\ Total(o.user) >= 0

\* ------------------------------------------------------------------ C21
\* C21: each of delete_topup, delete_withdraw, delete_transfer and
\* delete_saldo, called with id X, deletes the row found by the lookup of the
\* rows user X owns; a row whose own id is X and whose owner is another user
\* stays in place; and when user X owns no row the call returns NotFound and
\* deletes nothing.
C21_Delete(p, kind, now, before, owned) ==
  LET o == ops[p] IN
  Returned(p, kind) =>
    /\ o.status = "ok" => \E r \in owned : now = before \ {r}
    /\ \A r \in before \ owned : r \in now
    /\ now \subseteq before
    /\ (owned = {} /\ o.log # <<>> /\ FailedCalls(o) = {}) =>
         /\ o.status = "err" /\ o.err.kind = "NotFound"
         /\ now = before

C21_SaldoRows(s) == {[user |-> u, row |-> s[u]] : u \in {v \in UserIds : s[v] # None}}

C21_DeleteSemantics ==
  \A p \in Procs :
    LET x == ops[p].id IN
    /\ C21_Delete(p, "delete_topup", topups, pre[p].topups,
                  OwnedBy(pre[p].topups, x))
    /\ C21_Delete(p, "delete_withdraw", withdraws, pre[p].withdraws,
                  OwnedBy(pre[p].withdraws, x))
    /\ C21_Delete(p, "delete_transfer", transfers, pre[p].transfers,
                  TransfersOf(pre[p].transfers, x))
    /\ C21_Delete(p, "delete_saldo", C21_SaldoRows(saldo), C21_SaldoRows(pre[p].saldo),
                  OwnedBy(C21_SaldoRows(pre[p].saldo), x))

\* ------------------------------------------------------------------ C28
\* C28: two concurrent create_withdraw calls on one user whose balance is B,
\* with amounts a1 <= B, a2 <= B and a1 + a2 > B, can both pass the
\* sufficiency check and both return success; then two withdraw rows exist
\* whose amounts add up to more than B, and the final total is B - a1 or
\* B - a2. The witness is the interleaving.
C28_DoubleSpend ==
  \A p, q \in Procs :
    LET o1 == ops[p]
        o2 == ops[q]
    IN
    (/\ p # q
     /\ Returned(p, "create_withdraw") /\ o1.status = "ok"
     /\ Returned(q, "create_withdraw") /\ o2.status = "ok"
     /\ o1.user = o2.user
     /\ o1.rd = o2.rd) =>
      /\ PreHasSaldo(p, o1.user) /\ PreTotal(p, o1.user) = o1.rd
      /\ PreHasSaldo(q, o1.user) /\ PreTotal(q, o1.user) = o1.rd
      /\ o1.amount <= o1.rd /\ o2.amount <= o1.rd
      /\ o1.rec # o2.rec
      /\ \E r1, r2 \in withdraws \ (pre[p].withdraws \cap pre[q].withdraws) :
           /\ r1.id = o1.rec /\ r1.user = o1.user /\ r1.amount = o1.amount
           /\ r2.id = o2.rec /\ r2.user = o2.user /\ r2.amount = o2.amount
      /\ Total(o1.user) \in {o1.rd - o1.amount, o1.rd - o2.amount}

C28_Witness ==
  \E p, q \in Procs :
    /\ p # q
    /\ Returned(p, "create_withdraw") /\ ops[p].status = "ok"
    /\ Returned(q, "create_withdraw") /\ ops[q].status = "ok"
    /\ ops[p].user = ops[q].user
    /\ ops[p].rd = ops[q].rd
    /\ ops[p].amount + ops[q].amount > ops[p].rd
    /\ Cardinality(withdraws \ (pre[p].withdraws \cap pre[q].withdraws)) = 2
    /\ Total(ops[p].user) = ops[p].rd - ops[q].amount

\* ------------------------------------------------------------------ C30
\* C30: however concurrent create_withdraw calls on one user's balance
\* interleave, no other method touching the balance and the initial total
\* being at least 0, the stored total is below 0 in no reachable state.
C30_RaceNonNegative ==
  \A u \in UserIds : HasSaldo(u) => Total(u) >= 0

C30_Witness ==
  \E p, q \in Procs :
    /\ p # q
    /\ ops[p].kind = "create_withdraw" /\ ops[q].kind = "create_withdraw"
    /\ ops[p].user = ops[q].user
    /\ OkAt(ops[p], "cw_update_saldo") /\ OkAt(ops[q], "cw_update_saldo")
    /\ ops[p].rd = ops[q].rd
    /\ ops[p].amount + ops[q].amount > ops[p].rd
    /\ Total(ops[p].user) = 0

\* ------------------------------------------------------------------ C29
\* C29: the compensation create_transfer makes when the receiver write failed
\* sets the sender's total to the value the call read before it debited the
\* sender, whatever the total is by then; so when another call (a topup, say)
\* changed the sender's balance between that read and the compensation, the
\* other call's effect is lost although it returned success. The witness is
\* such a topup.
C29_CompensationOverwrites ==
  [][\A p \in Procs :
       (/\ ops[p].pc = "ct_undo_sender"
        /\ ops'[p].pc = "done"
        /\ OkAt(ops'[p], "ct_undo_sender")) =>
         /\ saldo'[ops[p].user] # None
         /\ saldo'[ops[p].user][1].total = ops[p].rd]_vars

C29_Witness ==
  \E p, q \in Procs :
    /\ Returned(p, "create_transfer")
    /\ FailedAt(ops[p], "ct_update_receiver") /\ OkAt(ops[p], "ct_undo_sender")
    /\ Returned(q, "create_topup") /\ ops[q].status = "ok"
    /\ OkAt(ops[q], "tp_update_saldo")
    /\ ops[q].user = ops[p].user
    /\ ops[q].rd = ops[p].rd - ops[p].amount
    /\ ops[q].amount # ops[p].amount
    /\ ~AddOverflows(ops[q].rd, ops[q].amount)
    /\ Total(ops[p].user) = ops[p].rd
    /\ Total(ops[p].user) # ops[q].rd + ops[q].amount

\* ------------------------------------------------------------------ C31
\* C31: an update_topup that returns an error after the user and row lookups
\* (the balance row is missing, the balance lookup fails, or the balance write
\* fails), the rollback write having succeeded where one was attempted, leaves
\* the topup row's amount at its value before the call and the balance
\* unchanged.
C31_TopupUpdateIntactOnError ==
  \A p \in Procs :
    LET o == ops[p] IN
    (/\ Returned(p, "update_topup")
     /\ o.status = "err"
     /\ o.err.at \in {"utp_find_saldo", "utp_update_saldo"}
     /\ CompensationsOk(o)) =>
      /\ topups = pre[p].topups
      /\ saldo = pre[p].saldo

\* ------------------------------------------------------------------ C32
\* C32: an update_topup(topup_id, user_id, new_amount) that returns success on
\* a row of amount old leaves the row's amount at new_amount and the total of
\* user_id at its previous value plus (new_amount - old).
C32_TopupUpdateEffect ==
  \A p \in Procs :
    LET o == ops[p] IN
    (Returned(p, "update_topup") /\ o.status = "ok") =>
      /\ \E t \in ById(pre[p].topups, o.id) :
           /\ o.diff = o.amount - t.amount
           /\ topups = (pre[p].topups \ {t}) \cup {TopupRow(t.id, t.user, o.amount)}
      /\ PreHasSaldo(p, o.user) /\ HasSaldo(o.user)
      /\ checked_add(PreTotal(p, o.user), o.diff) = Some(Total(o.user))

\* ------------------------------------------------------------------ C33
\* C33: update_topup(topup_id, user_id, new_amount) changes a balance only
\* when the topup row of id topup_id is owned by user_id: a request that names
\* another user than the row's owner changes no balance.
C33_TopupUpdateOwnership ==
  \A p \in Procs :
    LET o == ops[p] IN
    (/\ o.kind = "update_topup"
     /\ \A t \in ById(pre[p].topups, o.id) : t.user # o.user) =>
      saldo = pre[p].saldo

\* ------------------------------------------------------------------ C34
\* C34: delete_topup, delete_withdraw and delete_transfer, whether they
\* succeed or fail, leave every balance row (total and withdraw metadata) as
\* it was; on success the one journal row is removed and nothing else.
C34_JournalDeletes == {"delete_topup", "delete_withdraw", "delete_transfer"}

C34_DeleteFrame ==
  \A p \in Procs :
    LET o == ops[p]
        removed == [topups |-> pre[p].topups \ topups,
                    withdraws |-> pre[p].withdraws \ withdraws,
                    transfers |-> pre[p].transfers \ transfers]
        ownTable == CASE o.kind = "delete_topup" -> "topups"
                      [] o.kind = "delete_withdraw" -> "withdraws"
                      [] OTHER -> "transfers"
    IN
    o.kind \in C34_JournalDeletes =>
      /\ saldo = pre[p].saldo
      /\ topups \subseteq pre[p].topups
      /\ withdraws \subseteq pre[p].withdraws
      /\ transfers \subseteq pre[p].transfers
      /\ \A tb \in DOMAIN removed \ {ownTable} : removed[tb] = {}
      /\ IF o.pc = "done" /\ o.status = "ok"
           THEN \E r \in removed[ownTable] : removed[ownTable] = {r} /\ r.id = o.rec
           ELSE removed[ownTable] = {}

C34_Witness ==
  \E p \in Procs :
    /\ Returned(p, "delete_topup") /\ ops[p].status = "ok"
    /\ HasSaldo(ops[p].id)
    /\ topups # pre[p].topups

\* ------------------------------------------------------------------ C36
\* C36: delete_topup, delete_withdraw, delete_transfer and delete_saldo,
\* called with an id the user directory reports as absent (the lookup
\* succeeds and finds no user), return a NotFound error to the caller, not
\* ending without a result, and delete nothing.
C36_DeleteMethods ==
  {"delete_topup", "delete_withdraw", "delete_transfer", "delete_saldo"}

C36_DeleteUnknownUser ==
  \A p \in Procs :
    LET o == ops[p] IN
    (/\ o.kind \in C36_DeleteMethods /\ o.pc = "done"
     /\ o.log # <<>> /\ o.log[1].call = "user.find_by_id" /\ o.log[1].ok
     /\ o.id \notin Users) =>
      /\ o.status = "err" /\ o.err.kind = "NotFound"
      /\ topups = pre[p].topups /\ withdraws = pre[p].withdraws
      /\ transfers = pre[p].transfers /\ saldo = pre[p].saldo

\* ------------------------------------------------------------------ C35
\* C35: a create_transfer with from = to = X and amount A at most X's
\* balance that returns success leaves X's balance at its value before the
\* call (the debit is written, then the credit is computed from the debited
\* row read again) and adds exactly one transfer row (X, X, A).
C35_SelfTransfer ==
  \A p \in Procs :
    LET o == ops[p] IN
    (/\ Returned(p, "create_transfer") /\ o.status = "ok"
     /\ o.user = o.to
     /\ PreHasSaldo(p, o.user) /\ PreTotal(p, o.user) >= o.amount) =>
      /\ OkAt(o, "ct_update_sender") /\ OkAt(o, "ct_update_receiver")
      /\ HasSaldo(o.user) /\ Total(o.user) = PreTotal(p, o.user)
      /\ saldo = pre[p].saldo
      /\ pre[p].transfers \subseteq transfers
      /\ transfers \ pre[p].transfers = {TransferRow(o.rec, o.user, o.user, o.amount)}

C35_Witness ==
  \E p \in Procs :
    /\ Returned(p, "create_transfer") /\ ops[p].status = "ok"
    /\ ops[p].user = ops[p].to
    /\ PreTotal(p, ops[p].user) >= ops[p].amount
    /\ Cardinality(transfers) = Cardinality(pre[p].transfers) + 1

\* ------------------------------------------------------------------ C37
\* C37: create_topup and create_transfer create the journal row before any
\* balance read or write, and when the creation of the row fails they return
\* that error without having read or written any balance.
C37_BalanceCalls(o) == {i \in DOMAIN o.log : o.log[i].call \in
                          {"saldo.find_by_user_id", "saldo.update_balance", "saldo.create",
                           "saldo.update_saldo_withdraw", "saldo.delete"}}

C37_JournalFirst ==
  \A p \in Procs :
    LET o == ops[p]
        createAt == IF o.kind = "create_topup" THEN "tp_create" ELSE "ct_create"
    IN
    o.kind \in {"create_topup", "create_transfer"} =>
      /\ \A i \in C37_BalanceCalls(o) :
           \E j \in CallsAt(o, createAt) : j < i /\ o.log[j].ok
      /\ (CallsAt(o, createAt) = {} \/ FailedAt(o, createAt)) => saldo = pre[p].saldo
      /\ FailedAt(o, createAt) =>
           /\ o.pc = "done" /\ o.status = "err"
           /\ o.err = Err("StoreError", createAt)
           /\ C37_BalanceCalls(o) = {}
           /\ topups = pre[p].topups /\ transfers = pre[p].transfers

C37_Witness ==
  \E p \in Procs :
    /\ Returned(p, "create_topup") /\ FailedAt(ops[p], "tp_create")
    /\ ops[p].err = Err("StoreError", "tp_create")
    /\ HasSaldo(ops[p].user)

====
